---- MODULE Spec2Model ----
(***************************************************************************)
(* A model of the notebook 06_bert/bert.ipynb: fine-tuning a pre-trained   *)
(* BERT model for sentence pair classification.                            *)
(*                                                                         *)
(* Spec     the cells that load the model, attach and initialize the       *)
(*          classifier, build the data loader and the Trainer, and run the *)
(*          training loop, one action per statement of the loop.  The data *)
(*          set is abstracted to the number of batches the loader yields.  *)
(* FairSpec Spec with weak fairness of Next: a notebook cell, once         *)
(*          started, keeps executing its next statement.                   *)
(* SpecT    the cells that load the data set and apply                     *)
(*          BERTDatasetTransform, for one sentence pair.                   *)
(*                                                                         *)
(* Parameter values are abstracted: a parameter's data is the value it was *)
(* initialized to (init) and the number of optimizer steps applied to it   *)
(* (steps); a gradient is its status (none, fresh, clipped, stale).  The   *)
(* loss of a batch is a nondeterministic small integer.                    *)
(***************************************************************************)
EXTENDS Integers, Sequences, FiniteSets, TLC

VARIABLES pc,          \* the statement the notebook executes next
          param,       \* parameter name -> [group, grad_req, init, steps, grad]
          classifier,  \* the parameters that model.classifier holds
          nb,          \* len(bert_dataloader)
          trainer,     \* the gluon.Trainer, "None" before it is built
          params,      \* the list params of the training cell (as a set)
          range_next,  \* the next value range(num_epochs) yields
          epoch_id,
          enum_next,   \* the next index enumerate(bert_dataloader) yields
          batch_id,
          recorded,    \* the loss ls has a graph recorded under autograd
          ls,          \* the loss of the current batch
          step_loss,
          num_inst,    \* metric.num_inst, counted in batches
          log,         \* the lines printed so far
          steps,       \* history: the steps run for the current batch
          drawn,       \* history: every <<epoch_id, batch_id>> drawn so far
          num_forward, \* history: the forward passes run so far
          sentence,    \* the example of data_train before the transform
          sample       \* the example of data_train after the transform

vars == <<pc, param, classifier, nb, trainer, params, range_next, epoch_id,
          enum_next, batch_id, recorded, ls, step_loss, num_inst, log, steps,
          drawn, num_forward, sentence, sample>>

modelVars == <<param, classifier>>
dataVars == <<sentence, sample>>
loopVars == <<range_next, epoch_id, enum_next, batch_id>>
histVars == <<steps, drawn, num_forward>>
statVars == <<ls, step_loss, num_inst, log>>

-----------------------------------------------------------------------------
(* Bounds of the model. *)

\* the largest number of batches the data loader yields in one epoch
MaxBatches == 5

\* the largest number of words of a sentence of the data set
MaxWords == 2

\* max_len, the maximum sequence length: 128 in the notebook, scaled down so
\* that pairs within MaxWords are truncated
max_len == 8

-----------------------------------------------------------------------------
(* Constants of the training cell. *)

\* lr = 5e-6, in units of 1e-8
lr == 500
log_interval == 4
num_epochs == 3

\* the loss of one batch, abstracted
LossValues == {1, 3}

\* the parameters nlp.model.get_model returns with bert_base
BertNames == {"bert.word_embed", "bert.encoder", "bert.pooler"}
\* the parameters of the nn.Dense layer of BERTClassifier
ClassifierNames == {"classifier.weight", "classifier.bias"}

None == "None"

\* '{:.7f}'.format(x), x in units of 1e-8: the value rounded to units of 1e-7
Format7f(x) == (x + 5) \div 10

\* model.collect_params(): the parameters of every child block
collect_params == DOMAIN param

\* the parameters of `names` whose gradient is computed
Differentiable(names) == {n \in names : param[n].grad_req /= "null"}

-----------------------------------------------------------------------------
(* Cell 5: bert_base, vocabulary = nlp.model.get_model(..., pretrained=True) *)
get_model ==
    /\ pc = "get_model"
    /\ \E req \in [BertNames -> {"write", "null"}] :
          param' = [n \in BertNames |->
                      [group |-> "bert", grad_req |-> req[n],
                       init |-> "pretrained", steps |-> 0, grad |-> "none"]]
    /\ pc' = "BERTClassifier"
    /\ UNCHANGED <<classifier, nb, trainer, params, loopVars, recorded,
                   statVars, histVars, dataVars>>

(* Cell 7: model = bert.BERTClassifier(bert_base, num_classes=2, dropout=0.1) *)
(* the model keeps bert_base and adds a Dense layer, not yet initialized     *)
BERTClassifier ==
    /\ pc = "BERTClassifier"
    /\ param' = [n \in DOMAIN param \cup ClassifierNames |->
                   IF n \in DOMAIN param THEN param[n]
                   ELSE [group |-> "classifier", grad_req |-> "write",
                         init |-> "uninitialized", steps |-> 0, grad |-> "none"]]
    /\ classifier' = ClassifierNames
    /\ pc' = "initialize"
    /\ UNCHANGED <<nb, trainer, params, loopVars, recorded, statVars,
                   histVars, dataVars>>

\* Block.initialize(init) on the parameters `names`: a parameter that already
\* holds data is left alone (force_reinit is False)
Initialize(names, init) ==
    [n \in DOMAIN param |->
        IF n \in names /\ param[n].init = "uninitialized"
        THEN [param[n] EXCEPT !.init = init]
        ELSE param[n]]

\* model.initialize(init, force_reinit=True): every parameter is drawn anew
initialize_whole_model ==
    /\ pc = "initialize"
    /\ param' = [n \in DOMAIN param |-> [param[n] EXCEPT !.init = "Normal(0.02)"]]
    /\ pc' = "DataLoader"
    /\ UNCHANGED <<classifier, nb, trainer, params, loopVars, recorded,
                   statVars, histVars, dataVars>>

(* Cell 7: model.classifier.initialize(init=mx.init.Normal(0.02), ctx=ctx) *)
classifier_initialize ==
    /\ pc = "initialize"
    /\ param' = Initialize(classifier, "Normal(0.02)")
    /\ pc' = "DataLoader"
    /\ UNCHANGED <<classifier, nb, trainer, params, loopVars, recorded,
                   statVars, histVars, dataVars>>

(* Cell 13: train_sampler = FixedBucketSampler(...); bert_dataloader = ... *)
(* the sampler refuses an empty data set, so it yields at least one batch  *)
DataLoader ==
    /\ pc = "DataLoader"
    /\ \E n \in 1..MaxBatches : nb' = n
    /\ pc' = "Trainer"
    /\ UNCHANGED <<modelVars, trainer, params, loopVars, recorded, statVars,
                   histVars, dataVars>>

(* Cell 13: gluon.Trainer over the classifier's parameters alone *)
Trainer_classifier_only ==
    /\ pc = "Trainer"
    /\ trainer' = [learning_rate |-> lr, params |-> classifier, num_update |-> 0]
    /\ params' = Differentiable(collect_params)
    /\ pc' = "epoch"
    /\ UNCHANGED <<modelVars, nb, loopVars, recorded, statVars, histVars,
                   dataVars>>

(* Cell 13: trainer = gluon.Trainer(model.collect_params(), 'adam',          *)
(*                                  {'learning_rate': lr, 'epsilon': 1e-9})  *)
(*          params = [p for p in model.collect_params().values()             *)
(*                    if p.grad_req != 'null']                               *)
Trainer ==
    /\ pc = "Trainer"
    /\ trainer' = [learning_rate |-> lr, params |-> collect_params,
                   num_update |-> 0]
    /\ params' = Differentiable(collect_params)
    /\ pc' = "epoch"
    /\ UNCHANGED <<modelVars, nb, loopVars, recorded, statVars, histVars,
                   dataVars>>

(* for epoch_id in range(num_epochs): metric.reset(); step_loss = 0 *)
epoch_loop ==
    /\ pc = "epoch"
    /\ IF range_next < num_epochs
       THEN /\ epoch_id' = range_next
            /\ range_next' = range_next + 1
            /\ num_inst' = 0
            /\ step_loss' = 0
            /\ enum_next' = 0
            /\ pc' = "batch"
            /\ UNCHANGED batch_id
       ELSE /\ pc' = "done"
            /\ UNCHANGED <<loopVars, num_inst, step_loss>>
    /\ UNCHANGED <<modelVars, nb, trainer, params, recorded, ls, log,
                   histVars, dataVars>>

\* a loop over the data loader that leaves out the last batch
batch_loop_drop_last ==
    /\ pc = "batch"
    /\ IF enum_next < nb - 1
       THEN /\ batch_id' = enum_next
            /\ enum_next' = enum_next + 1
            /\ drawn' = Append(drawn, <<epoch_id, enum_next>>)
            /\ steps' = <<>>
            /\ pc' = "forward"
       ELSE /\ pc' = "epoch"
            /\ UNCHANGED <<batch_id, enum_next, drawn, steps>>
    /\ UNCHANGED <<modelVars, nb, trainer, params, range_next, epoch_id,
                   recorded, statVars, num_forward, dataVars>>

(* for batch_id, (...) in enumerate(bert_dataloader): *)
batch_loop ==
    /\ pc = "batch"
    /\ IF enum_next < nb
       THEN /\ batch_id' = enum_next
            /\ enum_next' = enum_next + 1
            /\ drawn' = Append(drawn, <<epoch_id, enum_next>>)
            /\ steps' = <<>>
            /\ pc' = "forward"
       ELSE /\ pc' = "epoch"
            /\ UNCHANGED <<batch_id, enum_next, drawn, steps>>
    /\ UNCHANGED <<modelVars, nb, trainer, params, range_next, epoch_id,
                   recorded, statVars, num_forward, dataVars>>

\* a validation step: the forward pass outside autograd.record, with no
\* backward pass and no update
forward_evaluation_only ==
    /\ pc = "forward"
    /\ \A n \in DOMAIN param : param[n].init /= "uninitialized"
    /\ \E l \in LossValues : ls' = l
    /\ recorded' = FALSE
    /\ steps' = Append(steps, "forward")
    /\ num_forward' = num_forward + 1
    /\ pc' = "log"
    /\ UNCHANGED <<modelVars, nb, trainer, params, loopVars, step_loss,
                   num_inst, log, drawn, dataVars>>

(* with mx.autograd.record():                                  *)
(*     out = model(token_ids, segment_ids, valid_length...)    *)
(*     ls = loss_function(out, label).mean()                   *)
(* the forward pass needs every parameter to hold data         *)
forward ==
    /\ pc = "forward"
    /\ \A n \in DOMAIN param : param[n].init /= "uninitialized"
    /\ \E l \in LossValues : ls' = l
    /\ recorded' = TRUE
    /\ steps' = Append(steps, "forward")
    /\ num_forward' = num_forward + 1
    /\ pc' = "backward"
    /\ UNCHANGED <<modelVars, nb, trainer, params, loopVars, step_loss,
                   num_inst, log, drawn, dataVars>>

(* ls.backward(): every parameter whose grad_req is not 'null' gets the *)
(* gradient of the recorded loss; the graph is freed                    *)
backward ==
    /\ pc = "backward"
    /\ recorded
    /\ param' = [n \in DOMAIN param |->
                   IF param[n].grad_req /= "null"
                   THEN [param[n] EXCEPT !.grad = "fresh"]
                   ELSE param[n]]
    /\ recorded' = FALSE
    /\ steps' = Append(steps, "backward")
    /\ pc' = "allreduce_grads"
    /\ UNCHANGED <<classifier, nb, trainer, params, loopVars, statVars,
                   drawn, num_forward, dataVars>>

\* the gradient clipping left out: the update follows allreduce_grads
allreduce_grads_then_update ==
    /\ pc = "allreduce_grads"
    /\ steps' = Append(steps, "allreduce_grads")
    /\ pc' = "update"
    /\ UNCHANGED <<modelVars, nb, trainer, params, loopVars, recorded,
                   statVars, drawn, num_forward, dataVars>>

(* trainer.allreduce_grads(): on one device there is no kvstore and the *)
(* gradients are left as they are                                       *)
allreduce_grads ==
    /\ pc = "allreduce_grads"
    /\ steps' = Append(steps, "allreduce_grads")
    /\ pc' = "clip_grad_global_norm"
    /\ UNCHANGED <<modelVars, nb, trainer, params, loopVars, recorded,
                   statVars, drawn, num_forward, dataVars>>

(* nlp.utils.clip_grad_global_norm(params, 1): the gradients of params are *)
(* rescaled so that their global 2-norm is at most 1                       *)
clip_grad_global_norm ==
    /\ pc = "clip_grad_global_norm"
    /\ param' = [n \in DOMAIN param |->
                   IF n \in params
                   THEN [param[n] EXCEPT !.grad = "clipped"]
                   ELSE param[n]]
    /\ steps' = Append(steps, "clip_grad_global_norm")
    /\ pc' = "update"
    /\ UNCHANGED <<classifier, nb, trainer, params, loopVars, recorded,
                   statVars, drawn, num_forward, dataVars>>

\* the parameters after one optimizer step of trainer `t`: every parameter of
\* the trainer whose grad_req is not 'null' is stepped and its gradient used
Stepped(t) ==
    [n \in DOMAIN param |->
        IF n \in t.params /\ param[n].grad_req /= "null"
        THEN [param[n] EXCEPT !.steps = @ + 1, !.grad = "stale"]
        ELSE param[n]]

\* the update refuses a stale gradient (ignore_stale_grad is False)
GradsReady(t) ==
    \A n \in t.params :
        param[n].grad_req /= "null" => param[n].grad \in {"fresh", "clipped"}

\* an update under a warmup schedule: the learning rate follows num_update
update_with_warmup ==
    /\ pc = "update"
    /\ GradsReady(trainer)
    /\ param' = Stepped(trainer)
    /\ trainer' = [trainer EXCEPT !.num_update = @ + 1,
                                  !.learning_rate = lr + 10 * (trainer.num_update + 1)]
    /\ steps' = Append(steps, "update")
    /\ pc' = "log"
    /\ UNCHANGED <<classifier, nb, params, loopVars, recorded, statVars,
                   drawn, num_forward, dataVars>>

(* trainer.update(1) *)
update ==
    /\ pc = "update"
    /\ GradsReady(trainer)
    /\ param' = Stepped(trainer)
    /\ trainer' = [trainer EXCEPT !.num_update = @ + 1]
    /\ steps' = Append(steps, "update")
    /\ pc' = "log"
    /\ UNCHANGED <<classifier, nb, params, loopVars, recorded, statVars,
                   drawn, num_forward, dataVars>>

\* the line print() writes, the learning rate as '{:.7f}' shows it
LogLine ==
    [epoch |-> epoch_id, batch |-> batch_id + 1, batches |-> nb,
     loss |-> (step_loss + ls) \div log_interval,
     lr |-> Format7f(trainer.learning_rate)]

(* step_loss += ls.asscalar(); metric.update([label], [out])     *)
(* if (batch_id + 1) % (log_interval) == 0: print(...); step_loss = 0 *)
log_step ==
    /\ pc = "log"
    /\ num_inst' = num_inst + 1
    /\ IF (batch_id + 1) % log_interval = 0
       THEN /\ log' = Append(log, LogLine)
            /\ step_loss' = 0
       ELSE /\ step_loss' = step_loss + ls
            /\ UNCHANGED log
    /\ pc' = "batch"
    /\ UNCHANGED <<modelVars, nb, trainer, params, loopVars, recorded, ls,
                   histVars, dataVars>>

-----------------------------------------------------------------------------
(* Cells 9 and 11: the data set and BERTDatasetTransform. *)

\* the words a sentence of the data set is made of
Words == {"The", "'t", "zzzz"}

\* the sentences of at least one and at most MaxWords words
Sentences == UNION {[1..n -> Words] : n \in 1..MaxWords}

all_labels == <<"0", "1">>

\* str.lower() on a word
lower(w) == IF w = "The" THEN "the" ELSE w

\* the word pieces of a lower-cased word under the vocabulary: punctuation is
\* split off, a word the vocabulary lacks becomes [UNK]
WordPieces(w) ==
    CASE w = "the" -> <<"the">>
      [] w = "'t" -> <<"'", "t">>
      [] OTHER -> <<"[UNK]">>

RECURSIVE Tokenize(_)
\* bert_tokenizer(sentence), built with lower=True
Tokenize(s) ==
    IF s = <<>> THEN <<>>
    ELSE WordPieces(lower(Head(s))) \o Tokenize(Tail(s))

\* vocabulary[token]: the ids the recorded output shows
vocabulary(t) ==
    CASE t = "[UNK]" -> 0
      [] t = "[PAD]" -> 1
      [] t = "[CLS]" -> 2
      [] t = "[SEP]" -> 3
      [] t = "'" -> 1005
      [] t = "t" -> 1056
      [] t = "the" -> 1996

convert_tokens_to_ids(ts) == [i \in 1..Len(ts) |-> vocabulary(ts[i])]

Repeat(x, n) == [i \in 1..n |-> x]

\* the numbers of tokens of A and of B that are kept: all of them when the
\* pair fits max_len with its three special tokens, otherwise leading tokens
\* that fit
Kept(la, lb) ==
    IF la + lb + 3 <= max_len
    THEN {<<la, lb>>}
    ELSE {k \in (0..la) \X (0..lb) : k[1] + k[2] + 3 <= max_len}

\* the transform without the [SEP] that closes the second sentence
Transformed_no_final_sep(a, b, label) ==
    LET tokens == <<"[CLS]">> \o a \o <<"[SEP]">> \o b
        pad == max_len - Len(tokens)
    IN  [token_ids |-> convert_tokens_to_ids(tokens) \o Repeat(vocabulary("[PAD]"), pad),
         valid_length |-> Len(tokens),
         segment_ids |-> Repeat(0, Len(a) + 2) \o Repeat(1, Len(b)) \o Repeat(0, pad),
         label |-> CHOOSE i \in 0..1 : all_labels[i + 1] = label]

\* the transform with the padding in the second segment
Transformed_pad_segment_one(a, b, label) ==
    LET tokens == <<"[CLS]">> \o a \o <<"[SEP]">> \o b \o <<"[SEP]">>
        pad == max_len - Len(tokens)
    IN  [token_ids |-> convert_tokens_to_ids(tokens) \o Repeat(vocabulary("[PAD]"), pad),
         valid_length |-> Len(tokens),
         segment_ids |-> Repeat(0, Len(a) + 2) \o Repeat(1, Len(b) + 1) \o Repeat(1, pad),
         label |-> CHOOSE i \in 0..1 : all_labels[i + 1] = label]

\* the transform with the length of the padded array as the valid length
Transformed_padded_length(a, b, label) ==
    LET tokens == <<"[CLS]">> \o a \o <<"[SEP]">> \o b \o <<"[SEP]">>
        pad == max_len - Len(tokens)
    IN  [token_ids |-> convert_tokens_to_ids(tokens) \o Repeat(vocabulary("[PAD]"), pad),
         valid_length |-> max_len,
         segment_ids |-> Repeat(0, Len(a) + 2) \o Repeat(1, Len(b) + 1) \o Repeat(0, pad),
         label |-> CHOOSE i \in 0..1 : all_labels[i + 1] = label]

\* the example made of the kept tokens a of A and b of B: [CLS] a [SEP] b
\* [SEP] as ids padded to max_len, the valid length, the segment ids (0 for
\* the first segment and the padding, 1 for the second) and the label's index
Transformed(a, b, label) ==
    LET tokens == <<"[CLS]">> \o a \o <<"[SEP]">> \o b \o <<"[SEP]">>
        pad == max_len - Len(tokens)
    IN  [token_ids |-> convert_tokens_to_ids(tokens) \o Repeat(vocabulary("[PAD]"), pad),
         valid_length |-> Len(tokens),
         segment_ids |-> Repeat(0, Len(a) + 2) \o Repeat(1, Len(b) + 1) \o Repeat(0, pad),
         label |-> CHOOSE i \in 0..1 : all_labels[i + 1] = label]

(* Cell 9: data_train = dataset.MRPCDataset('dev', root='.'): an example is *)
(* two sentences and a label                                                *)
MRPCDataset ==
    /\ pc = "MRPCDataset"
    /\ \E a \in Sentences, b \in Sentences, l \in {"0", "1"} :
          sentence' = [a |-> a, b |-> b, label |-> l]
    /\ pc' = "transform"
    /\ UNCHANGED <<modelVars, nb, trainer, params, loopVars, recorded,
                   statVars, histVars, sample>>

(* Cell 11: transform = dataset.BERTDatasetTransform(bert_tokenizer, max_len, *)
(*              labels=all_labels, label_dtype='int32')                       *)
(*          data_train = data_train.transform(transform)                      *)
BERTDatasetTransform ==
    /\ pc = "transform"
    /\ LET tokens_a == Tokenize(sentence.a)
           tokens_b == Tokenize(sentence.b)
       IN  \E k \in Kept(Len(tokens_a), Len(tokens_b)) :
              sample' = Transformed(SubSeq(tokens_a, 1, k[1]),
                                    SubSeq(tokens_b, 1, k[2]), sentence.label)
    /\ pc' = "transformed"
    /\ UNCHANGED <<modelVars, nb, trainer, params, loopVars, recorded,
                   statVars, histVars, sentence>>

-----------------------------------------------------------------------------
(* The state after the imports of cells 1 and 3. *)
Init ==
    /\ pc = "get_model"
    /\ param = <<>>
    /\ classifier = {}
    /\ nb = 0
    /\ trainer = None
    /\ params = {}
    /\ range_next = 0
    /\ epoch_id = -1
    /\ enum_next = 0
    /\ batch_id = -1
    /\ recorded = FALSE
    /\ ls = 0
    /\ step_loss = 0
    /\ num_inst = 0
    /\ log = <<>>
    /\ steps = <<>>
    /\ drawn = <<>>
    /\ num_forward = 0
    /\ sentence = None
    /\ sample = None

Next ==
    \/ get_model
    \/ BERTClassifier
    \/ classifier_initialize
    \/ DataLoader
    \/ Trainer
    \/ epoch_loop
    \/ batch_loop
    \/ forward
    \/ backward
    \/ allreduce_grads
    \/ clip_grad_global_norm
    \/ update
    \/ log_step

Spec == Init /\ [][Next]_vars

\* the state after cell 7, every parameter of bert_base with the default
\* grad_req
InitT ==
    /\ pc = "MRPCDataset"
    /\ param = [n \in BertNames \cup ClassifierNames |->
                  IF n \in BertNames
                  THEN [group |-> "bert", grad_req |-> "write",
                        init |-> "pretrained", steps |-> 0, grad |-> "none"]
                  ELSE [group |-> "classifier", grad_req |-> "write",
                        init |-> "Normal(0.02)", steps |-> 0, grad |-> "none"]]
    /\ classifier = ClassifierNames
    /\ nb = 0
    /\ trainer = None
    /\ params = {}
    /\ range_next = 0
    /\ epoch_id = -1
    /\ enum_next = 0
    /\ batch_id = -1
    /\ recorded = FALSE
    /\ ls = 0
    /\ step_loss = 0
    /\ num_inst = 0
    /\ log = <<>>
    /\ steps = <<>>
    /\ drawn = <<>>
    /\ num_forward = 0
    /\ sentence = None
    /\ sample = None

NextT ==
    \/ MRPCDataset
    \/ BERTDatasetTransform

SpecT == InitT /\ [][NextT]_vars

FairSpec == Init /\ [][Next]_vars /\ WF_vars(Next)

-----------------------------------------------------------------------------
(* Properties of the training cell. *)

IsPrefix(s, t) == Len(s) <= Len(t) /\ SubSeq(t, 1, Len(s)) = s

\* x occurs in s at an index after `from`
IndexAfter(s, x, from) == {i \in (from + 1)..Len(s) : s[i] = x}

\* the steps of one batch, in the order of the loop body
StepOrder ==
    <<"forward", "backward", "allreduce_grads", "clip_grad_global_norm",
      "update">>

\* the Trainer of the training cell exists
TrainerBuilt ==
    pc \notin {"get_model", "BERTClassifier", "initialize", "DataLoader",
               "Trainer"}

InBatch == pc \in {"forward", "backward", "allreduce_grads",
                   "clip_grad_global_norm", "update"}

\* every <<epoch_id, batch_id>> of a run over n batches, in order
Enumeration(n) ==
    [i \in 1..(num_epochs * n) |-> <<(i - 1) \div n, (i - 1) % n>>]

\* C1: the learning rate is fixed: from the Trainer's construction on,
\* trainer.learning_rate is the lr it was built with, whatever step of the
\* loop has run, and every log line printed reports that lr.
C1_FixedLearningRate ==
    /\ TrainerBuilt => trainer.learning_rate = lr
    /\ \A i \in 1..Len(log) : log[i].lr = Format7f(lr)

C1_Witness == Len(log) >= 3 /\ pc = "done"

\* C2: validation steps are skipped: every batch drawn is a training batch.
\* Its forward pass is followed by a backward pass and an update before the
\* next batch is drawn, and no forward pass runs but the one of a drawn batch.
C2_EveryBatchTrained ==
    /\ num_forward <= Len(drawn)
    /\ (pc = "log" =>
          \E i \in IndexAfter(steps, "forward", 0) :
             \E j \in IndexAfter(steps, "backward", i) :
                IndexAfter(steps, "update", j) /= {})
    /\ (pc \in {"batch", "epoch", "done"} /\ TrainerBuilt =>
          /\ num_forward = Len(drawn)
          /\ trainer.num_update = Len(drawn))

C2_Witness == pc = "done" /\ Len(drawn) > num_epochs

\* C3: the Trainer is built over every parameter of the model, pre-trained
\* and classifier alike, and every update steps every parameter whose
\* grad_req is not 'null': none is frozen or left out.
C3_AllParamsTrained ==
    TrainerBuilt =>
       /\ trainer.params = DOMAIN param
       /\ BertNames \subseteq trainer.params
       /\ classifier \subseteq trainer.params
       /\ \A n \in DOMAIN param :
             param[n].grad_req /= "null" => param[n].steps = trainer.num_update

C3_Witness ==
    /\ TrainerBuilt
    /\ trainer.num_update >= 2
    /\ \E n \in BertNames : param[n].grad_req /= "null" /\ param[n].steps >= 2
    /\ \E n \in BertNames : param[n].grad_req = "null"

\* C4: only the classifier layer is initialized: after
\* model.classifier.initialize the classifier's parameters hold the Normal
\* initialization and every parameter of bert_base holds its loaded value,
\* untouched until the first training step has run its forward pass.
C4_OnlyClassifierInitialized ==
    pc \notin {"get_model", "BERTClassifier", "initialize"} =>
       /\ \A n \in classifier : param[n].init = "Normal(0.02)"
       /\ \A n \in BertNames : param[n].init = "pretrained"
       /\ num_forward = 0 => \A n \in BertNames : param[n].steps = 0

C4_Witness == pc = "forward" /\ num_forward = 0 /\ Len(drawn) = 1

\* C8: within a batch the steps run in the order forward (recorded), backward,
\* allreduce_grads, clip_grad_global_norm, update; the update finds the
\* gradients of params clipped; there is one update per batch, and the update
\* of a batch is done before the next batch is drawn.
C8_StepOrder ==
    /\ IsPrefix(steps, StepOrder)
    /\ (pc = "backward" => recorded)
    /\ (pc = "update" => \A n \in params : param[n].grad = "clipped")
    /\ (pc = "log" => steps = StepOrder)
    /\ (TrainerBuilt =>
          trainer.num_update = Len(drawn) - (IF InBatch THEN 1 ELSE 0))

C8_Witness == pc = "log" /\ Len(drawn) >= 2 /\ steps = StepOrder

\* C9: the training loop terminates, having drawn every batch of every epoch
\* once, epochs 0, 1, 2 in order and batch_id 0 .. len(bert_dataloader) - 1 in
\* order within each, and having made num_epochs * len(bert_dataloader)
\* updates.
C9_LoopTerminates ==
    /\ [](IsPrefix(drawn, Enumeration(nb)))
    /\ <>(/\ pc = "done"
          /\ drawn = Enumeration(nb)
          /\ trainer.num_update = num_epochs * nb)

C9_Witness ==
    /\ pc = "done"
    /\ nb >= log_interval
    /\ trainer.num_update = num_epochs * nb
    /\ Len(log) = num_epochs

-----------------------------------------------------------------------------
(* Properties of BERTDatasetTransform. *)

PAD == vocabulary("[PAD]")
CLS == vocabulary("[CLS]")
SEP == vocabulary("[SEP]")

\* the token ids of sentence A and of sentence B of the example
IdsA == convert_tokens_to_ids(Tokenize(sentence.a))
IdsB == convert_tokens_to_ids(Tokenize(sentence.b))

\* the pair fits max_len with its three special tokens
Fits == Len(IdsA) + Len(IdsB) + 3 <= max_len

\* ids is max_len long, holds [CLS] a [SEP] b [SEP] in its first vl positions
\* and the padding id after them, and no other [CLS] or [SEP]
Layout(ids, vl, a, b) ==
    /\ Len(ids) = max_len
    /\ vl = Len(a) + Len(b) + 3
    /\ vl <= Len(ids)
    /\ SubSeq(ids, 1, vl) = <<CLS>> \o a \o <<SEP>> \o b \o <<SEP>>
    /\ \A i \in (vl + 1)..Len(ids) : ids[i] = PAD
    /\ {i \in 1..Len(ids) : ids[i] = CLS} = {1}
    /\ {i \in 1..Len(ids) : ids[i] = SEP} = {Len(a) + 2, vl}

\* the index of the first [SEP] of ids
FirstSep(ids) ==
    CHOOSE i \in 1..Len(ids) :
        ids[i] = SEP /\ \A j \in 1..(i - 1) : ids[j] /= SEP

C6_SegmentIds ==
    pc = "transformed" =>
       LET ids == sample.token_ids
           seg == sample.segment_ids
           sep == FirstSep(ids)
       IN  /\ Len(seg) = Len(ids)
           /\ ids[1] = CLS
           /\ sep < sample.valid_length
           /\ ids[sample.valid_length] = SEP
           /\ \A i \in 1..Len(seg) :
                 seg[i] = IF i > sep /\ i <= sample.valid_length THEN 1 ELSE 0

C6_Witness ==
    /\ pc = "transformed"
    /\ sample.valid_length < max_len
    /\ sample.segment_ids[sample.valid_length] = 1
    /\ sample.segment_ids[sample.valid_length + 1] = 0
    /\ Len(IdsB) >= 2

====
